---- MODULE Spec2Model ----
(***************************************************************************)
(* Authentication / session lifecycle of the ERP backend                   *)
(* (backend/app/main.py, backend/app/auth.py, backend/app/models.py).      *)
(*                                                                         *)
(* The database tables are the shared state; every db.commit() of a        *)
(* handler is one atomic step.  /auth/refresh commits twice (mark revoked, *)
(* then insert the replacement), so it is modelled as four steps run by a  *)
(* request worker; FastAPI runs sync handlers on a thread pool, so two     *)
(* workers interleave freely.  All other handlers commit once and are one  *)
(* step each.  The response of a handler is the value it computes from the *)
(* request and the tables it reads (the *_status operators); a request     *)
(* that is refused writes nothing.                                         *)
(*                                                                         *)
(* Time is counted in minutes; the clock advances a day at a time.         *)
(***************************************************************************)
EXTENDS Integers, Sequences, FiniteSets, TLC

VARIABLES
    now,             \* datetime.utcnow(), in minutes
    users,           \* table users: id -> row (only existing rows)
    refresh_tokens,  \* table refresh_tokens: sequence of rows, index = id
    access_tokens,   \* signed access tokens handed out so far (held by clients)
    pc,              \* per worker: position inside refresh_token()
    tok,             \* per worker: payload.refresh_token of the call
    rec,             \* per worker: id of the row found by the lookup
    rotated,         \* history: finished rotations [secret, old, new]
    logged_out,      \* history: issued secrets for which /auth/logout has returned
    departments,     \* table departments: the ids of the rows
    tasks,           \* table tasks: id -> row
    events,          \* table events: id -> row
    request_tickets, \* table request_tickets: id -> row
    resources,       \* table resources: id -> row
    access_grants,   \* table access_grants: id -> row
    config,          \* get_settings(): what the process read from its environment
    phase,           \* the process: "boot", "serving" or "aborted"
    email_queue,     \* table email_queue: sequence of rows, index = id
    mailer           \* the thread of _email_worker: its position and its batch

(* the tables behind the resource handlers *)
org_vars == <<departments, tasks, events, request_tickets, resources, access_grants>>

(* what the resource handlers leave alone beside the users table *)
(* the process and its mail thread *)
ops_vars == <<config, phase, email_queue, mailer>>

session_vars ==
    <<now, refresh_tokens, access_tokens, pc, tok, rec, rotated, logged_out, ops_vars>>

vars == <<now, users, refresh_tokens, access_tokens, pc, tok, rec, rotated,
          logged_out, org_vars, ops_vars>>

----------------------------------------------------------------------------
(* Bounds of the model *)

MaxDays == 7          \* the clock stops after this many days
MaxRecords == 3       \* rows in refresh_tokens
MaxUsers == 5         \* highest user id
Workers == {"w1", "w2"}

(* Settings (backend/app/config.py) *)

(* the values Settings takes when the environment sets nothing *)
default_config ==
    [secret_key |-> "change-me", environment |-> "dev", smtp_host |-> "",
     smtp_from |-> ""]

secret_key == config.secret_key
admin_email == "admin@example.com"
default_admin_password == "changeme"
access_token_expire_minutes == 60 * 24
refresh_token_expire_minutes == 60 * 24 * 7
password_min_length == 8

Day == 60 * 24

Roles == {"admin", "manager", "staff", "collaborator"}
NoDept == 0
NoStamp == -1         \* a datetime column that is NULL
AdminDept == 1        \* department "Administration" made by seed_admin

Emails == {admin_email, "staff@example.com"}
Passwords == {default_admin_password, "Welcome123!"}
ShortPassword == "short"

(* Raw refresh secrets.  secrets.token_urlsafe(48) is unguessable, so a    *)
(* client can present a secret the server issued or one that no row will   *)
(* ever match (UnknownSecret).  Issued secrets are numbered in issue order.*)
UnknownSecret == 0
IssuedSecrets == 1..Len(refresh_tokens)
RawSecrets == {UnknownSecret} \cup (1..MaxRecords)

----------------------------------------------------------------------------
(* auth.py *)

get_password_hash(password) == <<"bcrypt", password>>

verify_password(plain_password, hashed_password) ==
    hashed_password = <<"bcrypt", plain_password>>

(* Variant of create_access_token with a plausible slip: the jti claim is    *)
(* a fixed value, so two tokens of a user signed in the same minute are     *)
(* equal.                                                                   *)
create_access_token_fixed_jti(user_id, utcnow, jti) ==
    [sub |-> user_id,
     exp |-> utcnow + access_token_expire_minutes,
     iat |-> utcnow,
     jti |-> 0,
     key |-> secret_key]

create_access_token(user_id, utcnow, jti) ==
    [sub |-> user_id,
     exp |-> utcnow + access_token_expire_minutes,
     iat |-> utcnow,
     jti |-> jti,
     key |-> secret_key]

get_user(us, email) == {i \in DOMAIN us : us[i].email = email}

authenticate_user(us, email, password) ==
    {i \in get_user(us, email) : verify_password(password, us[i].hashed_password)}

(* jose.jwt.decode: the signature must verify under settings.secret_key    *)
(* and the exp claim is refused only when exp < now (leeway 0).            *)
jwt_decode(token, utcnow) ==
    /\ token.key = secret_key
    /\ ~(token.exp < utcnow)

(* Variant of get_current_user with a plausible slip: a token whose         *)
(* refresh row is revoked is refused (a server-side session table).         *)
get_current_user_checks_ledger(token, utcnow, us) ==
    IF ~jwt_decode(token, utcnow) THEN 401
    ELSE IF /\ token.jti \in DOMAIN refresh_tokens
            /\ refresh_tokens[token.jti].revoked
    THEN 401
    ELSE IF token.sub \notin DOMAIN us THEN 401
    ELSE IF ~us[token.sub].active THEN 401
    ELSE 200

(* Variant of get_current_user with a plausible slip: user.active is not    *)
(* looked at.                                                              *)
get_current_user_ignores_active(token, utcnow, us) ==
    IF ~jwt_decode(token, utcnow) THEN 401
    ELSE IF token.sub \notin DOMAIN us THEN 401
    ELSE 200

get_current_user(token, utcnow, us) ==
    IF ~jwt_decode(token, utcnow) THEN 401
    ELSE IF token.sub \notin DOMAIN us THEN 401
    ELSE IF ~us[token.sub].active THEN 401
    ELSE 200

require_role(roles, token, utcnow, us) ==
    IF get_current_user(token, utcnow, us) # 200 THEN 401
    ELSE IF us[token.sub].role \notin roles THEN 403
    ELSE 200

----------------------------------------------------------------------------
(* main.py: refresh-token ledger *)

_hash_refresh_token(token) == <<"sha256", token, secret_key>>

(* the row _issue_refresh_token adds *)
_issue_refresh_token(ledger, user_id, raw, utcnow) ==
    Append(ledger, [user_id    |-> user_id,
                    token_hash |-> _hash_refresh_token(raw),
                    expires_at |-> utcnow + refresh_token_expire_minutes,
                    revoked    |-> FALSE])

(* Variants of _revoke_refresh_token with a plausible slip: the filter      *)
(* also asks for revoked = 1 (no row changes); the statement flips the     *)
(* flag; the statement clears the flag.                                    *)
_revoke_only_revoked(ledger, token_hash) ==
    [i \in DOMAIN ledger |->
        IF ledger[i].token_hash = token_hash /\ ledger[i].revoked
        THEN [ledger[i] EXCEPT !.revoked = TRUE]
        ELSE ledger[i]]

_revoke_flips_flag(ledger, token_hash) ==
    [i \in DOMAIN ledger |->
        IF ledger[i].token_hash = token_hash
        THEN [ledger[i] EXCEPT !.revoked = ~ledger[i].revoked]
        ELSE ledger[i]]

_revoke_clears_flag(ledger, token_hash) ==
    [i \in DOMAIN ledger |->
        IF ledger[i].token_hash = token_hash
        THEN [ledger[i] EXCEPT !.revoked = FALSE]
        ELSE ledger[i]]

(* Variant of _revoke_refresh_token with a plausible slip: the statement   *)
(* filters on the owner of the matching row, not on the hash.              *)
_revoke_all_of_owner(ledger, token_hash) ==
    [i \in DOMAIN ledger |->
        IF \E j \in DOMAIN ledger :
              /\ ledger[j].token_hash = token_hash
              /\ ledger[j].user_id = ledger[i].user_id
        THEN [ledger[i] EXCEPT !.revoked = TRUE]
        ELSE ledger[i]]

(* UPDATE refresh_tokens SET revoked = 1 WHERE token_hash = :h *)
_revoke_refresh_token(ledger, token_hash) ==
    [i \in DOMAIN ledger |->
        IF ledger[i].token_hash = token_hash
        THEN [ledger[i] EXCEPT !.revoked = TRUE]
        ELSE ledger[i]]

(* Variants of the query with a plausible slip: the revoked filter is      *)
(* missing; the expiry comparison is >=.                                   *)
refresh_query_without_revoked(ledger, token_hash, utcnow) ==
    {i \in DOMAIN ledger :
        /\ ledger[i].token_hash = token_hash
        /\ ledger[i].expires_at > utcnow}

refresh_query_expiry_inclusive(ledger, token_hash, utcnow) ==
    {i \in DOMAIN ledger :
        /\ ledger[i].token_hash = token_hash
        /\ ledger[i].revoked = FALSE
        /\ ledger[i].expires_at >= utcnow}

(* the query of refresh_token(): rows that match the hash, are not revoked *)
(* and expire strictly after now                                           *)
refresh_query(ledger, token_hash, utcnow) ==
    {i \in DOMAIN ledger :
        /\ ledger[i].token_hash = token_hash
        /\ ledger[i].revoked = FALSE
        /\ ledger[i].expires_at > utcnow}

(* secrets.token_urlsafe(48): a value never issued before *)
token_urlsafe(ledger) == Len(ledger) + 1

(* secrets.token_hex(8) for the jti claim: a value never used before *)
token_hex(issued) == Cardinality(issued) + 1

----------------------------------------------------------------------------
(* State after startup_event(): tables created, seed_admin() has run,      *)
(* seed_ngo_data() is off by default.                                      *)

seed_admin ==
    [i \in {1} |->
        [email           |-> admin_email,
         hashed_password |-> get_password_hash(default_admin_password),
         department_id   |-> AdminDept,
         role            |-> "admin",
         active          |-> TRUE]]

Init ==
    /\ config = default_config
    /\ now = 0
    /\ users = seed_admin
    /\ refresh_tokens = <<>>
    /\ access_tokens = {}
    /\ pc = [w \in Workers |-> "idle"]
    /\ tok = [w \in Workers |-> UnknownSecret]
    /\ rec = [w \in Workers |-> 0]
    /\ rotated = {}
    /\ logged_out = {}
    /\ departments = {AdminDept}
    /\ tasks = <<>>
    /\ events = <<>>
    /\ request_tickets = <<>>
    /\ resources = <<>>
    /\ access_grants = <<>>
    /\ phase = "serving"
    /\ email_queue = <<>>
    /\ mailer = [pc |-> "off", batch |-> <<>>]

InFlight == {w \in Workers : pc[w] # "idle"}

(* the thread pool hands a request to an idle worker; which one is immaterial *)
IdleWorker == CHOOSE w \in Workers \cup {"none"} : w \in Workers => pc[w] = "idle"

(* room for one more row, counting the rows in-flight refreshes will add *)
Room == Len(refresh_tokens) + Cardinality(InFlight) < MaxRecords

----------------------------------------------------------------------------
(* The clock *)

(* The clock advances a day at a time; from day 1 it skips to the day the  *)
(* refresh tokens of day 0 expire (no token issued on day 0 or 1 changes   *)
(* its validity on the days skipped, except that the access tokens of      *)
(* day 1 expire).                                                          *)
Tick ==
    /\ now < MaxDays * Day
    /\ now' = IF now = Day THEN refresh_token_expire_minutes ELSE now + Day
    /\ UNCHANGED <<users, refresh_tokens, access_tokens, pc, tok, rec,
                   rotated, logged_out, org_vars, ops_vars>>

----------------------------------------------------------------------------
(* POST /auth/token *)

(* lines 769-771: 401 when authenticate_user returns nothing *)
login_status(us, email, password) ==
    IF authenticate_user(us, email, password) = {} THEN 401 ELSE 200

login_for_access_token(email, password) ==
    IF login_status(users, email, password) = 401
    THEN UNCHANGED vars
    ELSE LET user_id == CHOOSE i \in authenticate_user(users, email, password) : TRUE IN
         /\ Room
         /\ access_tokens' = access_tokens \cup
                {create_access_token(user_id, now, token_hex(access_tokens))}
         /\ refresh_tokens' = _issue_refresh_token(refresh_tokens, user_id,
                                  token_urlsafe(refresh_tokens), now)
         /\ UNCHANGED <<now, users, pc, tok, rec, rotated, logged_out, org_vars, ops_vars>>

----------------------------------------------------------------------------
(* POST /auth/refresh, in the order of its statements *)

(* lines 779-793: hash the secret, run the query (401 when no row), load  *)
(* the owner (401 when missing or inactive).  The two SELECTs write        *)
(* nothing and are taken as one read of the database.                      *)
(* Variant of the lookup with a plausible slip: the owner is not loaded.   *)
refresh_lookup_without_owner_check(ledger, us, raw, utcnow) ==
    LET found == refresh_query(ledger, _hash_refresh_token(raw), utcnow) IN
    IF found = {} THEN 0 ELSE CHOOSE i \in found : TRUE

refresh_lookup(ledger, us, raw, utcnow) ==
    LET found == refresh_query(ledger, _hash_refresh_token(raw), utcnow) IN
    IF found = {} THEN 0
    ELSE LET record == CHOOSE i \in found : TRUE IN
         IF ledger[record].user_id \notin DOMAIN us THEN 0
         ELSE IF ~us[ledger[record].user_id].active THEN 0
         ELSE record

(* 401 from either raise of lines 789-793; otherwise the handler runs to   *)
(* its return and answers 200                                              *)
refresh_status(ledger, us, raw, utcnow) ==
    IF refresh_lookup(ledger, us, raw, utcnow) = 0 THEN 401 ELSE 200

RefreshLookup(w, raw) ==
    /\ pc[w] = "idle"
    /\ w = IdleWorker
    /\ Room
    /\ IF refresh_status(refresh_tokens, users, raw, now) = 401
       THEN UNCHANGED <<pc, tok, rec>>
       ELSE /\ pc' = [pc EXCEPT ![w] = "revoke"]
            /\ tok' = [tok EXCEPT ![w] = raw]
            /\ rec' = [rec EXCEPT ![w] =
                           refresh_lookup(refresh_tokens, users, raw, now)]
    /\ UNCHANGED <<now, users, refresh_tokens, access_tokens, rotated, logged_out, org_vars, ops_vars>>

(* lines 795-796: record.revoked = True; db.commit() *)
RefreshRevoke(w) ==
    /\ pc[w] = "revoke"
    /\ refresh_tokens' = [refresh_tokens EXCEPT ![rec[w]].revoked = TRUE]
    /\ pc' = [pc EXCEPT ![w] = "issue"]
    /\ UNCHANGED <<now, users, access_tokens, tok, rec, rotated, logged_out, org_vars, ops_vars>>

(* lines 797-799: insert the replacement, commit, sign the access token *)
RefreshIssue(w) ==
    /\ pc[w] = "issue"
    /\ LET user_id == refresh_tokens[rec[w]].user_id IN
       /\ refresh_tokens' = _issue_refresh_token(refresh_tokens, user_id,
                                token_urlsafe(refresh_tokens), now)
       /\ access_tokens' = access_tokens \cup
              {create_access_token(user_id, now, token_hex(access_tokens))}
    /\ rotated' = rotated \cup
           {[secret |-> tok[w], old |-> rec[w], new |-> Len(refresh_tokens) + 1]}
    /\ pc' = [pc EXCEPT ![w] = "idle"]
    /\ tok' = [tok EXCEPT ![w] = UnknownSecret]
    /\ rec' = [rec EXCEPT ![w] = 0]
    /\ UNCHANGED <<now, users, logged_out, org_vars, ops_vars>>

----------------------------------------------------------------------------
(* POST /auth/logout *)

(* status_code=204 of the route; the handler has no raise *)
logout_status(ledger, raw) == 204

logout(raw) ==
    /\ refresh_tokens' = _revoke_refresh_token(refresh_tokens, _hash_refresh_token(raw))
    /\ logged_out' = logged_out \cup ({raw} \cap IssuedSecrets)
    /\ UNCHANGED <<now, users, access_tokens, pc, tok, rec, rotated, org_vars, ops_vars>>

----------------------------------------------------------------------------
(* GET /auth/me *)

(* a token signed with a key that is not settings.secret_key; its claims    *)
(* name the seeded admin and an expiry that never passes                   *)
ForgedTokens ==
    {[sub |-> 1, exp |-> (MaxDays + 1) * Day, iat |-> 0, jti |-> 0, key |-> "forged"]}

(* the handler returns the user get_current_user resolved and writes nothing *)
read_users_me(token) ==
    /\ get_current_user(token, now, users) \in {200, 401}
    /\ UNCHANGED vars

----------------------------------------------------------------------------
(* User administration (POST /users, PATCH /users/{id}, DELETE /users/{id}) *)
(* The activity_logs rows these handlers append are read by no handler of   *)
(* the model and are left out.                                              *)

Max(S) == CHOOSE x \in S : \A y \in S : y <= x

(* INTEGER PRIMARY KEY of the default sqlite database: largest id plus one *)
next_user_id(us) == IF DOMAIN us = {} THEN 1 ELSE Max(DOMAIN us) + 1

(* request bodies: a record holds the fields the client sent *)
UserCreates ==
    {[email |-> "staff@example.com", password |-> "Welcome123!", role |-> "staff",
      department_id |-> AdminDept, active |-> TRUE]}

UserUpdates ==
    {[active |-> a] : a \in BOOLEAN}
    \cup {[department_id |-> AdminDept, role |-> "manager", active |-> FALSE,
           password |-> ShortPassword]}

Field(body, f, default) == IF f \in DOMAIN body THEN body[f] ELSE default

(* the branch the handler leaves by, as its status code *)
create_user_status(token, user_in, utcnow, us) ==
    LET auth == require_role({"admin", "manager"}, token, utcnow, us)
        current_user == us[token.sub]
    IN
    IF auth # 200 THEN auth
    ELSE IF current_user.role = "manager" /\ user_in.role = "admin" THEN 403
    ELSE IF /\ current_user.role = "manager"
            /\ user_in.department_id \notin {NoDept, current_user.department_id}
    THEN 403
    ELSE IF Len(user_in.password) < password_min_length THEN 400
    ELSE IF get_user(us, user_in.email) # {} THEN 400
    ELSE 201

create_user(token, user_in) ==
    LET current_user == users[token.sub]
        id == next_user_id(users)
    IN
    IF create_user_status(token, user_in, now, users) # 201
    THEN UNCHANGED vars
    ELSE /\ id <= MaxUsers
         /\ users' = [i \in DOMAIN users \cup {id} |->
                IF i = id
                THEN [email           |-> user_in.email,
                      hashed_password |-> get_password_hash(user_in.password),
                      department_id   |-> IF current_user.role = "manager"
                                          THEN current_user.department_id
                                          ELSE user_in.department_id,
                      role            |-> user_in.role,
                      active          |-> user_in.active]
                ELSE users[i]]
         /\ UNCHANGED <<now, refresh_tokens, access_tokens, pc, tok, rec,
                        rotated, logged_out, org_vars, ops_vars>>

(* the fields of user_update.model_dump(exclude_none=True) written to the row *)
apply_user_update(row, body) ==
    [email           |-> row.email,
     hashed_password |-> IF "password" \in DOMAIN body
                         THEN get_password_hash(body.password)
                         ELSE row.hashed_password,
     department_id   |-> Field(body, "department_id", row.department_id),
     role            |-> Field(body, "role", row.role),
     active          |-> Field(body, "active", row.active)]

(* Variant of update_user's checks with a plausible slip: the manager      *)
(* branch does not look at the role of the body.                           *)
update_user_status_without_promote_check(token, user_id, user_update, utcnow, us) ==
    LET auth == require_role({"admin", "manager"}, token, utcnow, us)
        current_user == us[token.sub]
        db_user == us[user_id]
    IN
    IF auth # 200 THEN auth
    ELSE IF user_id \notin DOMAIN us THEN 404
    ELSE IF /\ current_user.role = "manager"
            /\ \/ db_user.department_id # current_user.department_id
               \/ Field(user_update, "department_id", NoDept)
                      \notin {NoDept, current_user.department_id}
    THEN 403
    ELSE IF /\ "password" \in DOMAIN user_update
            /\ Len(user_update.password) < password_min_length
    THEN 400
    ELSE 200

update_user_status(token, user_id, user_update, utcnow, us) ==
    LET auth == require_role({"admin", "manager"}, token, utcnow, us)
        current_user == us[token.sub]
        db_user == us[user_id]
    IN
    IF auth # 200 THEN auth
    ELSE IF user_id \notin DOMAIN us THEN 404
    ELSE IF /\ current_user.role = "manager"
            /\ \/ db_user.department_id # current_user.department_id
               \/ Field(user_update, "role", "none") = "admin"
               \/ Field(user_update, "department_id", NoDept)
                      \notin {NoDept, current_user.department_id}
    THEN 403
    ELSE IF /\ "password" \in DOMAIN user_update
            /\ Len(user_update.password) < password_min_length
    THEN 400
    ELSE 200

(* Variant of get_db with a plausible slip: the session is committed when  *)
(* the request ends.                                                       *)
get_db_commits_on_close(committed, dirty) == dirty

(* database.py: the session is closed when the request ends, with or       *)
(* without an exception; what the handler changed and did not commit is    *)
(* discarded.                                                              *)
get_db(committed, dirty) == committed

(* model_dump keeps the order of the fields of UserUpdate, password last:  *)
(* the fields written to the row before the length of the password is      *)
(* looked at                                                               *)
fields_before_password(body) ==
    [f \in DOMAIN body \ {"password"} |-> body[f]]

update_user(token, user_id, user_update) ==
    LET code == update_user_status(token, user_id, user_update, now, users) IN
    IF code \notin {200, 400}
    THEN UNCHANGED vars
    ELSE /\ users' =
              IF code = 400
              THEN get_db(users,
                          [users EXCEPT ![user_id] =
                              apply_user_update(users[user_id],
                                                fields_before_password(user_update))])
              ELSE [users EXCEPT
                       ![user_id] = apply_user_update(users[user_id], user_update)]
         /\ UNCHANGED <<now, refresh_tokens, access_tokens, pc, tok, rec,
                        rotated, logged_out, org_vars, ops_vars>>

(* db.delete(db_user) blanks the user reference of the rows reached by the *)
(* relationships of models.User that carry no delete cascade               *)
(* (assigned_tasks, created_tasks, resources); the columns are NOT NULL,   *)
(* so with such a row the flush of db.commit() raises IntegrityError and   *)
(* the request ends with 500, nothing written.  The task rows of the model *)
(* do not keep created_by_id, which no other statement reads: a task row   *)
(* stands for the same row created by any account that may create it, and  *)
(* the check is made on the assignee and on the owner of a resource.       *)
blanked_rows(ts, user_id) ==
    \/ \E i \in DOMAIN ts : ts[i].assigned_to_id = user_id
    \/ \E i \in DOMAIN resources : resources[i].owner_id = user_id

(* active_tasks: the tasks assigned to the user that are not done *)
active_tasks(ts, user_id) ==
    {i \in DOMAIN ts : ts[i].assigned_to_id = user_id /\ ts[i].status # "done"}

delete_user_status(token, user_id, utcnow, us, ts) ==
    LET auth == require_role({"admin", "manager"}, token, utcnow, us)
        current_user == us[token.sub]
        db_user == us[user_id]
    IN
    IF auth # 200 THEN auth
    ELSE IF user_id \notin DOMAIN us THEN 404
    ELSE IF /\ current_user.role = "manager"
            /\ \/ db_user.department_id # current_user.department_id
               \/ db_user.role = "admin"
    THEN 403
    ELSE IF active_tasks(ts, user_id) # {} THEN 400
    ELSE IF blanked_rows(ts, user_id) THEN 500
    ELSE 204

delete_user(token, user_id) ==
    IF delete_user_status(token, user_id, now, users, tasks) # 204
    THEN UNCHANGED vars
    ELSE /\ users' = [i \in DOMAIN users \ {user_id} |-> users[i]]
         /\ UNCHANGED <<now, refresh_tokens, access_tokens, pc, tok, rec,
                        rotated, logged_out, org_vars, ops_vars>>

----------------------------------------------------------------------------

(* Requests that are refused write nothing, so of the access tokens a user  *)
(* holds the newest decides what that user can change: an older token of    *)
(* the same user is accepted only while the newest is.                      *)
NewestTokens ==
    {t \in access_tokens : \A o \in access_tokens : o.sub = t.sub => o.jti <= t.jti}

(* ids a client can name: the rows that exist and one that does not; a     *)
(* user changes and deletes accounts other than the one signed in           *)
UserIds == DOMAIN users \cup {next_user_id(users)}

Next ==
    \/ Tick
    \/ \E e \in Emails, p \in Passwords : login_for_access_token(e, p)
    \/ \E w \in Workers, s \in RawSecrets :
          s \in IssuedSecrets \cup {UnknownSecret} /\ RefreshLookup(w, s)
    \/ \E w \in Workers : RefreshRevoke(w)
    \/ \E w \in Workers : RefreshIssue(w)
    \/ \E s \in RawSecrets : s \in IssuedSecrets \cup {UnknownSecret} /\ logout(s)
    \/ \E t \in access_tokens \cup ForgedTokens : read_users_me(t)
    \/ \E t \in NewestTokens, b \in UserCreates : create_user(t, b)
    \/ \E t \in NewestTokens, u \in UserIds, b \in UserUpdates :
          u # t.sub /\ update_user(t, u, b)
    \/ \E t \in NewestTokens, u \in UserIds : u # t.sub /\ delete_user(t, u)

Spec == Init /\ [][Next]_vars

----------------------------------------------------------------------------
(* Properties of the refresh ledger *)

RowOf(s) == {i \in DOMAIN refresh_tokens :
                refresh_tokens[i].token_hash = _hash_refresh_token(s)}

Rotated(s) == \E r \in rotated : r.secret = s

OwnerActive(i) ==
    /\ refresh_tokens[i].user_id \in DOMAIN users
    /\ users[refresh_tokens[i].user_id].active

(* the answer a refresh call that starts in the current state gets *)
RefreshNow(s) == refresh_status(refresh_tokens, users, s, now)

(* C1: of the refresh calls that present the same raw secret, exactly one  *)
(* succeeds: no secret is rotated into two replacement credentials.        *)
C1_OneRotationPerSecret ==
    \A r1, r2 \in rotated : r1.secret = r2.secret => r1 = r2

(* C2: a refresh secret is single-use: in every state reached after a       *)
(* refresh of secret s has succeeded, a refresh call presenting s is        *)
(* answered 401, whatever the clock, the owner and the other requests did   *)
(* in between.                                                              *)
C2_SingleUse ==
    \A s \in RawSecrets : Rotated(s) => RefreshNow(s) = 401

C2_Witness ==
    \E r \in rotated :
        /\ refresh_tokens[r.old].expires_at > now
        /\ OwnerActive(r.old)
        /\ r.secret \notin logged_out
        /\ \A w \in Workers : rec[w] # r.old
        /\ RefreshNow(r.secret) = 401

(* C3: rotation is atomic: in no state another request can observe has a    *)
(* refresh committed the revocation of the presented credential (the worker *)
(* is past its first commit) without its replacement for the same owner     *)
(* being in the ledger.                                                     *)
C3_RotationAtomic ==
    \A w \in Workers :
        (pc[w] = "issue" /\ refresh_tokens[rec[w]].revoked) =>
            \E r \in rotated :
                /\ r.old = rec[w]
                /\ r.new \in DOMAIN refresh_tokens
                /\ refresh_tokens[r.new].user_id = refresh_tokens[r.old].user_id

(* C4: in every state reached after logout(s) has returned, a refresh call  *)
(* presenting s is answered 401.                                            *)
C4_NoRefreshAfterLogout ==
    \A s \in logged_out : RefreshNow(s) = 401

C4_Witness ==
    \E s \in IssuedSecrets \cap logged_out :
        /\ ~Rotated(s)
        /\ \A w \in Workers : rec[w] # s
        /\ refresh_tokens[s].expires_at > now
        /\ OwnerActive(s)
        /\ RefreshNow(s) = 401

(* C5: logout answers 204 for every secret, matched or not; its statement   *)
(* applied to its own result changes nothing; it keeps every row and        *)
(* changes nothing but the revoked flag of the rows that match the secret.  *)
C5_LogoutIdempotent ==
    \A s \in RawSecrets :
        LET once == _revoke_refresh_token(refresh_tokens, _hash_refresh_token(s)) IN
        /\ logout_status(refresh_tokens, s) = 204
        /\ _revoke_refresh_token(once, _hash_refresh_token(s)) = once
        /\ DOMAIN once = DOMAIN refresh_tokens
        /\ \A i \in DOMAIN refresh_tokens \ RowOf(s) : once[i] = refresh_tokens[i]
        /\ \A i \in RowOf(s) : once[i] = [refresh_tokens[i] EXCEPT !.revoked = TRUE]

C5_Witness ==
    /\ \E r \in rotated :
          /\ r.secret \in logged_out
          /\ refresh_tokens[r.old].revoked
    /\ \E i \in DOMAIN refresh_tokens : ~refresh_tokens[i].revoked
    /\ logout_status(refresh_tokens, UnknownSecret) = 204

(* C7 as stated: refresh succeeds iff the ledger holds a row with the hash  *)
(* of the secret, revoked = false and expiry > now, and nothing else        *)
(* decides the outcome.                                                     *)
ValidRow(s) ==
    \E i \in RowOf(s) :
        ~refresh_tokens[i].revoked /\ refresh_tokens[i].expires_at > now

C8_LedgerMonotonic ==
    [][/\ Len(refresh_tokens') >= Len(refresh_tokens)
       /\ \A i \in DOMAIN refresh_tokens :
             /\ refresh_tokens'[i].user_id = refresh_tokens[i].user_id
             /\ refresh_tokens'[i].token_hash = refresh_tokens[i].token_hash
             /\ refresh_tokens'[i].expires_at = refresh_tokens[i].expires_at
             /\ refresh_tokens[i].revoked => refresh_tokens'[i].revoked]_vars

C8_Witness ==
    \E r \in rotated :
        /\ r.secret \in logged_out
        /\ refresh_tokens[r.old].revoked
        /\ refresh_tokens[r.old].user_id \notin DOMAIN users
        /\ refresh_tokens[r.old].expires_at <= now

----------------------------------------------------------------------------
(* Properties of login and of the session resolver *)

(* C6: login answers 200 iff a user with that email exists, the password    *)
(* verifies and the user is active; otherwise it answers 401.               *)
C6_LoginIffActive ==
    \A e \in Emails, p \in Passwords :
        login_status(users, e, p) =
            (IF \E i \in DOMAIN users :
                   /\ users[i].email = e
                   /\ verify_password(p, users[i].hashed_password)
                   /\ users[i].active
             THEN 200 ELSE 401)

(* C9: a request whose access token names a user that is missing or         *)
(* inactive now is answered 401, however valid the token is.                *)
C9_InactiveUserRejected ==
    \A t \in access_tokens \cup ForgedTokens :
        (t.sub \notin DOMAIN users \/ ~users[t.sub].active)
            => get_current_user(t, now, users) = 401

C9_Witness ==
    \E t \in access_tokens :
        /\ t.key = secret_key
        /\ t.exp > now
        /\ t.sub \in DOMAIN users
        /\ ~users[t.sub].active
        /\ get_current_user(t, now, users) = 401

(* C10: a request whose access token has exp <= now is answered 401,        *)
(* the boundary exp = now included, whatever its signature.                 *)
C10_ExpiredRejected ==
    \A t \in access_tokens \cup ForgedTokens :
        t.exp <= now => get_current_user(t, now, users) = 401

----------------------------------------------------------------------------
(* Access tokens against the refresh ledger *)

(* the refresh row inserted by the request that signed token t: both are    *)
(* numbered in issue order                                                  *)
CompanionRow(t) == t.jti

(* C11: the answer to an access token does not depend on the refresh        *)
(* ledger: every correctly signed, unexpired token of an existing, active   *)
(* user is answered 200, whether the refresh secret issued with it is       *)
(* live, logged out, rotated or expired.                                    *)
C11_LedgerIndependent ==
    \A t \in access_tokens :
        (/\ t.key = secret_key
         /\ t.exp > now
         /\ t.sub \in DOMAIN users
         /\ users[t.sub].active)
            => get_current_user(t, now, users) = 200

C11_Witness ==
    /\ \E t \in access_tokens :
          /\ CompanionRow(t) \in logged_out
          /\ refresh_tokens[CompanionRow(t)].revoked
          /\ get_current_user(t, now, users) = 200
    /\ \E t \in access_tokens :
          /\ Rotated(CompanionRow(t))
          /\ refresh_tokens[CompanionRow(t)].revoked
          /\ get_current_user(t, now, users) = 200

(* C12: the step that completes a refresh of secret S inserts exactly one   *)
(* row; the row is unrevoked, belongs to the owner of S and holds the hash  *)
(* of a secret other than S; exactly one access token is signed, it is      *)
(* none of the tokens issued before (the login token included) and its      *)
(* subject is that owner.                                                   *)
C12_RotationOutputs ==
    [][\A w \in Workers :
          RefreshIssue(w) =>
              LET owner == refresh_tokens[rec[w]].user_id
                  new == Len(refresh_tokens')
              IN
              /\ new = Len(refresh_tokens) + 1
              /\ \A i \in DOMAIN refresh_tokens :
                     refresh_tokens'[i] = refresh_tokens[i]
              /\ ~refresh_tokens'[new].revoked
              /\ refresh_tokens'[new].user_id = owner
              /\ refresh_tokens'[new].token_hash # _hash_refresh_token(tok[w])
              /\ Cardinality(access_tokens' \ access_tokens) = 1
              /\ \A a \in access_tokens' \ access_tokens : a.sub = owner]_vars

C12_Witness ==
    \E r \in rotated :
        /\ ~refresh_tokens[r.new].revoked
        /\ refresh_tokens[r.new].user_id = refresh_tokens[r.old].user_id
        /\ \E a, b \in access_tokens :
              /\ a.jti = r.old
              /\ b.jti = r.new
              /\ a.sub = b.sub
              /\ a.iat = b.iat


----------------------------------------------------------------------------
(* The organisation: departments, tasks, events, request tickets, task      *)
(* resources and access grants.  A row keeps the columns that a check of a  *)
(* handler reads: titles, descriptions, file paths, comments, messages,     *)
(* audit and activity rows are written by the handlers and decide nothing.  *)

MaxRows == 2          \* rows of the organisation's tables taken together

OtherDept == 2        \* a second department, made by POST /departments
ManagerId == 2
StaffId == 3
CollaboratorId == 4

(* INTEGER PRIMARY KEY of the default sqlite database: largest id plus one *)
next_id(rows) == IF DOMAIN rows = {} THEN 1 ELSE Max(DOMAIN rows) + 1

RowCount ==
    Cardinality(DOMAIN tasks) + Cardinality(DOMAIN events)
    + Cardinality(DOMAIN request_tickets) + Cardinality(DOMAIN resources)
    + Cardinality(DOMAIN access_grants)

(* room for one more row with the id the database would give it *)
HasRoom(rows) == RowCount < MaxRows /\ next_id(rows) <= MaxRows

(* the models.User the dependency hands to a handler *)
current_user_of(token) == [id |-> token.sub] @@ users[token.sub]

(* the accounts the administrator has made with POST /users: a manager and *)
(* a staff user in the administrator's department, a collaborator in the   *)
(* other one                                                               *)
provisioned_users ==
    [i \in {1, ManagerId, StaffId, CollaboratorId} |->
        IF i = 1 THEN seed_admin[1]
        ELSE [email           |-> CASE i = ManagerId -> "manager@example.com"
                                    [] i = StaffId -> "staff@example.com"
                                    [] OTHER -> "collaborator@example.com",
              hashed_password |-> get_password_hash("Welcome123!"),
              department_id   |-> IF i = CollaboratorId THEN OtherDept ELSE AdminDept,
              role            |-> CASE i = ManagerId -> "manager"
                                    [] i = StaffId -> "staff"
                                    [] OTHER -> "collaborator",
              active          |-> TRUE]]

(* the ledger after each account has signed in once, in the order of ids *)
RECURSIVE signed_in_ledger(_)
signed_in_ledger(n) ==
    IF n = 0 THEN <<>>
    ELSE _issue_refresh_token(signed_in_ledger(n - 1), n, n, 0)

(* State after the administrator has set the organisation up and every    *)
(* account has signed in: POST /departments, POST /users, POST /auth/login *)
OrgInit ==
    /\ config = default_config
    /\ now = 0
    /\ users = provisioned_users
    /\ refresh_tokens = signed_in_ledger(CollaboratorId)
    /\ access_tokens = {create_access_token(i, 0, i) : i \in DOMAIN provisioned_users}
    /\ pc = [w \in Workers |-> "idle"]
    /\ tok = [w \in Workers |-> UnknownSecret]
    /\ rec = [w \in Workers |-> 0]
    /\ rotated = {}
    /\ logged_out = {}
    /\ departments = {AdminDept, OtherDept}
    /\ tasks = <<>>
    /\ events = <<>>
    /\ request_tickets = <<>>
    /\ resources = <<>>
    /\ access_grants = <<>>
    /\ phase = "serving"
    /\ email_queue = <<>>
    /\ mailer = [pc |-> "off", batch |-> <<>>]

----------------------------------------------------------------------------
(* Tasks: POST /tasks, GET/PATCH/DELETE /tasks/{id}, send-to-admin, lists *)

(* Variant of _task_guard with a plausible slip: a grant that carries a    *)
(* department is read as confining its user to that department.            *)
_task_guard_confined_by_grant(task, user) ==
    IF user.role = "admin" THEN 200
    ELSE IF \E g \in DOMAIN access_grants :
                /\ access_grants[g].user_id = user.id
                /\ access_grants[g].department_id \notin {NoDept, task.department_id}
    THEN 403
    ELSE IF user.role = "manager" /\ user.department_id # task.department_id THEN 403
    ELSE IF user.role = "staff" /\ user.id # task.assigned_to_id THEN 403
    ELSE 200

(* 200 where the function returns, 403 where it raises *)
_task_guard(task, user) ==
    IF user.role = "admin" THEN 200
    ELSE IF user.role = "manager" /\ user.department_id # task.department_id THEN 403
    ELSE IF user.role = "staff" /\ user.id # task.assigned_to_id THEN 403
    ELSE 200

(* request bodies of POST /tasks: the departments and two assignees, a     *)
(* department that does not exist, an assignee that does not exist and a   *)
(* body whose end precedes its start                                       *)
TaskCreates ==
    {[department_id |-> d, assigned_to_id |-> a, start_date |-> 0, end_date |-> 1] :
        d \in departments, a \in {StaffId, CollaboratorId}}
    \cup {[department_id |-> Max(departments) + 1, assigned_to_id |-> StaffId,
           start_date |-> 0, end_date |-> 1],
          [department_id |-> AdminDept, assigned_to_id |-> next_user_id(users),
           start_date |-> 0, end_date |-> 1],
          [department_id |-> AdminDept, assigned_to_id |-> StaffId,
           start_date |-> 1, end_date |-> 0]}

create_task_status(token, task_in) ==
    LET auth == get_current_user(token, now, users)
        current_user == current_user_of(token)
    IN
    IF auth # 200 THEN auth
    ELSE IF task_in.department_id \notin departments THEN 400
    ELSE IF task_in.assigned_to_id \notin DOMAIN users THEN 404
    ELSE IF /\ current_user.role = "manager"
            /\ current_user.department_id # task_in.department_id
    THEN 403
    ELSE IF /\ current_user.role = "staff"
            /\ current_user.department_id # task_in.department_id
    THEN 403
    ELSE IF current_user.role = "staff" /\ current_user.id # task_in.assigned_to_id
    THEN 403
    ELSE IF task_in.end_date < task_in.start_date THEN 400
    ELSE 201

create_task(token, task_in) ==
    IF create_task_status(token, task_in) # 201
    THEN UNCHANGED vars
    ELSE /\ HasRoom(tasks)
         /\ tasks' = [i \in DOMAIN tasks \cup {next_id(tasks)} |->
                IF i = next_id(tasks)
                THEN [department_id  |-> task_in.department_id,
                      assigned_to_id |-> task_in.assigned_to_id,
                      status         |-> Field(task_in, "status", "pending"),
                      start_date     |-> task_in.start_date,
                      end_date       |-> task_in.end_date,
                      completed_at   |-> NoStamp]
                ELSE tasks[i]]
         /\ UNCHANGED <<users, session_vars, departments, events, request_tickets,
                        resources, access_grants>>

(* GET /tasks/{id}; POST and GET /tasks/{id}/comments and GET              *)
(* /tasks/{id}/resources make the same two checks                          *)
get_task_status(token, task_id) ==
    LET auth == get_current_user(token, now, users) IN
    IF auth # 200 THEN auth
    ELSE IF task_id \notin DOMAIN tasks THEN 404
    ELSE _task_guard(tasks[task_id], current_user_of(token))

add_comment_status(token, task_id) ==
    IF get_task_status(token, task_id) = 200 THEN 201 ELSE get_task_status(token, task_id)

list_comments_status(token, task_id) == get_task_status(token, task_id)

list_task_resources_status(token, task_id) == get_task_status(token, task_id)

(* the ids of the rows each list endpoint returns *)
list_my_tasks(token) ==
    {i \in DOMAIN tasks : tasks[i].assigned_to_id = token.sub}

list_department_tasks(token) ==
    LET dept_id == users[token.sub].department_id IN
    IF dept_id = NoDept THEN {}
    ELSE {i \in DOMAIN tasks : tasks[i].department_id = dept_id}

list_all_tasks(token) ==
    LET current_user == current_user_of(token) IN
    IF current_user.role = "manager"
    THEN {i \in DOMAIN tasks : tasks[i].department_id = current_user.department_id}
    ELSE IF current_user.role = "staff"
    THEN {i \in DOMAIN tasks : tasks[i].assigned_to_id = current_user.id}
    ELSE DOMAIN tasks

(* request bodies of PATCH /tasks/{id} *)
TaskUpdates ==
    {[status |-> "done"], [assigned_to_id |-> CollaboratorId], [start_date |-> 2]}
    \cup {[department_id |-> d] : d \in departments}

(* the columns task_update.model_dump(exclude_none=True) is allowed to set *)
allowed_fields(user) ==
    IF user.role \in {"staff", "manager"}
    THEN {"status", "description", "due_date", "start_date", "end_date"}
    ELSE {"title", "description", "department_id", "assigned_to_id", "status",
          "start_date", "end_date", "due_date"}

apply_task_update(row, body, user) ==
    [f \in DOMAIN row |->
        IF f \in DOMAIN body /\ f \in allowed_fields(user) THEN body[f] ELSE row[f]]

(* lines 1096-1099: a done task gets its stamp once, any other loses it *)
stamp_completed(db_task, utcnow) ==
    IF db_task.status = "done" /\ db_task.completed_at = NoStamp
    THEN [db_task EXCEPT !.completed_at = utcnow]
    ELSE IF db_task.status # "done"
    THEN [db_task EXCEPT !.completed_at = NoStamp]
    ELSE db_task

update_task_status(token, task_id, task_update) ==
    LET auth == get_current_user(token, now, users)
        current_user == current_user_of(token)
        db_task == apply_task_update(tasks[task_id], task_update, current_user)
    IN
    IF auth # 200 THEN auth
    ELSE IF task_id \notin DOMAIN tasks THEN 404
    ELSE IF _task_guard(tasks[task_id], current_user) # 200 THEN 403
    ELSE IF db_task.end_date < db_task.start_date THEN 400
    ELSE 200

update_task(token, task_id, task_update) ==
    IF update_task_status(token, task_id, task_update) # 200
    THEN UNCHANGED vars
    ELSE /\ tasks' = [tasks EXCEPT ![task_id] =
                         stamp_completed(
                             apply_task_update(tasks[task_id], task_update,
                                               current_user_of(token)), now)]
         /\ UNCHANGED <<users, session_vars, departments, events, request_tickets,
                        resources, access_grants>>

delete_task_status(token, task_id) ==
    LET auth == get_current_user(token, now, users)
        current_user == current_user_of(token)
        db_task == tasks[task_id]
    IN
    IF auth # 200 THEN auth
    ELSE IF task_id \notin DOMAIN tasks THEN 404
    ELSE IF current_user.role = "admin" THEN 204
    ELSE IF current_user.role = "manager"
    THEN IF current_user.department_id # db_task.department_id THEN 403 ELSE 204
    ELSE IF current_user.role = "staff"
    THEN IF db_task.assigned_to_id # current_user.id THEN 403 ELSE 204
    ELSE 403

(* the row goes and, by the delete-orphan cascade, its resources with it *)
delete_task(token, task_id) ==
    IF delete_task_status(token, task_id) # 204
    THEN UNCHANGED vars
    ELSE /\ tasks' = [i \in DOMAIN tasks \ {task_id} |-> tasks[i]]
         /\ resources' = [i \in {j \in DOMAIN resources :
                                    resources[j].task_id # task_id} |-> resources[i]]
         /\ UNCHANGED <<users, session_vars, departments, events, request_tickets,
                        access_grants>>

(* the first active administrator by id *)
active_admins == {i \in DOMAIN users : users[i].role = "admin" /\ users[i].active}

send_task_to_admin_status(token, task_id) ==
    LET auth == get_current_user(token, now, users) IN
    IF auth # 200 THEN auth
    ELSE IF task_id \notin DOMAIN tasks THEN 404
    ELSE IF _task_guard(tasks[task_id], current_user_of(token)) # 200 THEN 403
    ELSE IF active_admins = {} THEN 400
    ELSE 200

send_task_to_admin(token, task_id) ==
    IF send_task_to_admin_status(token, task_id) # 200
    THEN UNCHANGED vars
    ELSE LET admin_user == CHOOSE i \in active_admins : \A j \in active_admins : i <= j IN
         /\ tasks' = [tasks EXCEPT ![task_id].assigned_to_id = admin_user]
         /\ UNCHANGED <<users, session_vars, departments, events, request_tickets,
                        resources, access_grants>>

(* POST /tasks/{id}/upload: a file is its suffix and its length in bytes *)
allowed_upload_extensions ==
    {".pdf", ".png", ".jpg", ".jpeg", ".doc", ".docx", ".xls", ".xlsx", ".txt"}

max_upload_bytes == 5 * 1024 * 1024

Files ==
    {[ext |-> ".pdf", size |-> 1], [ext |-> ".exe", size |-> 1],
     [ext |-> ".pdf", size |-> max_upload_bytes + 1]}

upload_resource_status(token, task_id, file) ==
    LET auth == get_current_user(token, now, users) IN
    IF auth # 200 THEN auth
    ELSE IF task_id \notin DOMAIN tasks THEN 404
    ELSE IF _task_guard(tasks[task_id], current_user_of(token)) # 200 THEN 403
    ELSE IF file.ext \notin allowed_upload_extensions THEN 400
    ELSE IF file.size > max_upload_bytes THEN 400
    ELSE 201

upload_resource(token, task_id, file) ==
    IF upload_resource_status(token, task_id, file) # 201
    THEN UNCHANGED vars
    ELSE /\ HasRoom(resources)
         /\ resources' = [i \in DOMAIN resources \cup {next_id(resources)} |->
                IF i = next_id(resources)
                THEN [owner_id      |-> token.sub,
                      task_id       |-> task_id,
                      department_id |-> tasks[task_id].department_id]
                ELSE resources[i]]
         /\ UNCHANGED <<users, session_vars, departments, tasks, events,
                        request_tickets, access_grants>>

list_department_resources_status(token, department_id) ==
    LET auth == get_current_user(token, now, users)
        current_user == current_user_of(token)
    IN
    IF auth # 200 THEN auth
    ELSE IF current_user.role = "admin" THEN 200
    ELSE IF current_user.department_id # department_id THEN 403
    ELSE 200

list_department_resources(token, department_id) ==
    {i \in DOMAIN resources : resources[i].department_id = department_id}


----------------------------------------------------------------------------
(* Events and meetings: POST /events, PATCH/DELETE /events/{id},           *)
(* POST /meetings.  An event row is its department (NoDept when shared).   *)

EventCreates ==
    {[department_id |-> d] : d \in departments \cup {NoDept, Max(departments) + 1}}

EventUpdates ==
    {[department_id |-> d] : d \in departments} \cup {[scheduled_at |-> 1]}

create_event_status(token, event_in) ==
    LET auth == require_role({"admin", "manager"}, token, now, users)
        current_user == current_user_of(token)
    IN
    IF auth # 200 THEN auth
    ELSE IF /\ current_user.role = "manager"
            /\ event_in.department_id \notin {current_user.department_id, NoDept}
    THEN 403
    ELSE IF event_in.department_id # NoDept /\ event_in.department_id \notin departments
    THEN 400
    ELSE 201

add_event(event_in) ==
    /\ HasRoom(events)
    /\ events' = [i \in DOMAIN events \cup {next_id(events)} |->
           IF i = next_id(events)
           THEN [department_id |-> event_in.department_id]
           ELSE events[i]]
    /\ UNCHANGED <<users, session_vars, departments, tasks, request_tickets,
                   resources, access_grants>>

create_event(token, event_in) ==
    IF create_event_status(token, event_in) # 201
    THEN UNCHANGED vars
    ELSE add_event(event_in)

update_event_status(token, event_id, event_update) ==
    LET auth == get_current_user(token, now, users)
        current_user == current_user_of(token)
        db_event == events[event_id]
    IN
    IF auth # 200 THEN auth
    ELSE IF event_id \notin DOMAIN events THEN 404
    ELSE IF /\ current_user.role = "manager"
            /\ \/ db_event.department_id # current_user.department_id
               \/ db_event.department_id = NoDept
    THEN 403
    ELSE IF current_user.role \notin {"manager", "admin"} THEN 403
    ELSE IF /\ "department_id" \in DOMAIN event_update
            /\ current_user.role = "manager"
            /\ event_update.department_id # current_user.department_id
    THEN 403
    ELSE 200

update_event(token, event_id, event_update) ==
    IF update_event_status(token, event_id, event_update) # 200
    THEN UNCHANGED vars
    ELSE /\ events' = [events EXCEPT ![event_id].department_id =
                          Field(event_update, "department_id", @)]
         /\ UNCHANGED <<users, session_vars, departments, tasks, request_tickets,
                        resources, access_grants>>

delete_event_status(token, event_id) ==
    LET auth == get_current_user(token, now, users)
        current_user == current_user_of(token)
        db_event == events[event_id]
    IN
    IF auth # 200 THEN auth
    ELSE IF event_id \notin DOMAIN events THEN 404
    ELSE IF /\ current_user.role = "manager"
            /\ \/ db_event.department_id # current_user.department_id
               \/ db_event.department_id = NoDept
    THEN 403
    ELSE IF current_user.role \notin {"manager", "admin"} THEN 403
    ELSE 204

delete_event(token, event_id) ==
    IF delete_event_status(token, event_id) # 204
    THEN UNCHANGED vars
    ELSE /\ events' = [i \in DOMAIN events \ {event_id} |-> events[i]]
         /\ UNCHANGED <<users, session_vars, departments, tasks, request_tickets,
                        resources, access_grants>>

schedule_meeting_status(token, meeting) ==
    LET auth == get_current_user(token, now, users)
        current_user == current_user_of(token)
    IN
    IF auth # 200 THEN auth
    ELSE IF /\ current_user.role = "manager"
            /\ meeting.department_id \notin {current_user.department_id, NoDept}
    THEN 403
    ELSE IF /\ current_user.role = "staff"
            /\ meeting.department_id \notin {current_user.department_id, NoDept}
    THEN 403
    ELSE IF meeting.department_id # NoDept /\ meeting.department_id \notin departments
    THEN 400
    ELSE 201

schedule_meeting(token, meeting) ==
    IF schedule_meeting_status(token, meeting) # 201
    THEN UNCHANGED vars
    ELSE add_event(meeting)

----------------------------------------------------------------------------
(* Request tickets: POST /requests, PATCH /requests/{id},                  *)
(* POST /requests/{id}/respond, GET /requests, GET /requests/{id}/audit    *)

RequestCreates == {[department_id |-> d] : d \in departments \cup {NoDept}}

RequestUpdates == {[status |-> "rejected"], [status |-> "archived"]}

RequestResponses ==
    {[subject |-> "re", status |-> "rejected"], [subject |-> "re", status |-> "archived"],
     [subject |-> "re"]}

(* req.department_id or current_user.department_id *)
request_department(token, req) ==
    IF req.department_id # NoDept THEN req.department_id
    ELSE users[token.sub].department_id

create_request_status(token, req) ==
    LET auth == get_current_user(token, now, users) IN
    IF auth # 200 THEN auth
    ELSE IF request_department(token, req) = NoDept THEN 400
    ELSE 201

create_request(token, req) ==
    IF create_request_status(token, req) # 201
    THEN UNCHANGED vars
    ELSE /\ HasRoom(request_tickets)
         /\ request_tickets' =
                [i \in DOMAIN request_tickets \cup {next_id(request_tickets)} |->
                    IF i = next_id(request_tickets)
                    THEN [requester_id  |-> token.sub,
                          department_id |-> request_department(token, req),
                          status        |-> "pending",
                          resolved_at   |-> NoStamp]
                    ELSE request_tickets[i]]
         /\ UNCHANGED <<users, session_vars, departments, tasks, events, resources,
                        access_grants>>

ticket_statuses == {"pending", "approved", "rejected"}

(* Variant of the stamp with a plausible slip: the test for an earlier     *)
(* stamp is missing.                                                       *)
stamp_resolved_every_time(db_req, utcnow) ==
    IF db_req.status \in {"approved", "rejected"}
    THEN [db_req EXCEPT !.resolved_at = utcnow]
    ELSE db_req

(* if db_req.status in ("approved", "rejected") and db_req.resolved_at is  *)
(* None: db_req.resolved_at = datetime.utcnow()                            *)
stamp_resolved(db_req, utcnow) ==
    IF db_req.status \in {"approved", "rejected"} /\ db_req.resolved_at = NoStamp
    THEN [db_req EXCEPT !.resolved_at = utcnow]
    ELSE db_req

update_request_status(token, request_id, update) ==
    LET auth == require_role({"admin", "manager"}, token, now, users)
        current_user == current_user_of(token)
    IN
    IF auth # 200 THEN auth
    ELSE IF request_id \notin DOMAIN request_tickets THEN 404
    ELSE IF /\ current_user.role = "manager"
            /\ request_tickets[request_id].department_id # current_user.department_id
    THEN 403
    ELSE IF "status" \in DOMAIN update /\ update.status \notin ticket_statuses THEN 400
    ELSE 200

update_request(token, request_id, update) ==
    IF update_request_status(token, request_id, update) # 200
    THEN UNCHANGED vars
    ELSE /\ request_tickets' = [request_tickets EXCEPT ![request_id] =
                stamp_resolved([@ EXCEPT !.status = Field(update, "status", @)], now)]
         /\ UNCHANGED <<users, session_vars, departments, tasks, events, resources,
                        access_grants>>

respond_request_status(token, request_id, response) ==
    LET auth == require_role({"admin", "manager"}, token, now, users) IN
    IF auth # 200 THEN auth
    ELSE IF request_id \notin DOMAIN request_tickets THEN 404
    ELSE IF "status" \in DOMAIN response /\ response.status \notin ticket_statuses
    THEN 400
    ELSE 202

respond_request(token, request_id, response) ==
    IF respond_request_status(token, request_id, response) # 202
    THEN UNCHANGED vars
    ELSE /\ request_tickets' = [request_tickets EXCEPT ![request_id] =
                IF "status" \in DOMAIN response
                THEN stamp_resolved([@ EXCEPT !.status = response.status], now)
                ELSE @]
         /\ UNCHANGED <<users, session_vars, departments, tasks, events, resources,
                        access_grants>>

list_requests(token) ==
    LET current_user == current_user_of(token) IN
    IF current_user.role = "admin" THEN DOMAIN request_tickets
    ELSE IF current_user.role = "manager"
    THEN {i \in DOMAIN request_tickets :
             request_tickets[i].department_id = current_user.department_id}
    ELSE {i \in DOMAIN request_tickets :
             request_tickets[i].requester_id = current_user.id}

list_request_audits_status(token, request_id) ==
    LET auth == get_current_user(token, now, users)
        current_user == current_user_of(token)
        db_req == request_tickets[request_id]
    IN
    IF auth # 200 THEN auth
    ELSE IF request_id \notin DOMAIN request_tickets THEN 404
    ELSE IF current_user.role = "admin" THEN 200
    ELSE IF current_user.role = "manager"
    THEN IF current_user.department_id # db_req.department_id THEN 403 ELSE 200
    ELSE IF current_user.id # db_req.requester_id THEN 403
    ELSE 200

----------------------------------------------------------------------------
(* Access grants: POST /access-grants *)

GrantCreates ==
    {[user_id |-> u, resource_type |-> "tasks", resource_id |-> "all",
      permission |-> "edit", department_id |-> d] :
        u \in {StaffId, CollaboratorId}, d \in {NoDept, OtherDept}}

create_access_grant_status(token, grant) ==
    LET auth == require_role({"admin", "manager"}, token, now, users)
        current_user == current_user_of(token)
    IN
    IF auth # 200 THEN auth
    ELSE IF /\ current_user.role = "manager"
            /\ grant.department_id \notin {NoDept, current_user.department_id}
    THEN 403
    ELSE IF /\ current_user.role = "manager"
            /\ \/ grant.user_id \notin DOMAIN users
               \/ users[grant.user_id].department_id # current_user.department_id
    THEN 403
    ELSE 201

create_access_grant(token, grant) ==
    IF create_access_grant_status(token, grant) # 201
    THEN UNCHANGED vars
    ELSE /\ HasRoom(access_grants)
         /\ access_grants' =
                [i \in DOMAIN access_grants \cup {next_id(access_grants)} |->
                    IF i = next_id(access_grants) THEN grant ELSE access_grants[i]]
         /\ UNCHANGED <<users, session_vars, departments, tasks, events,
                        request_tickets, resources>>

----------------------------------------------------------------------------
(* The resource handlers over the organisation once it is set up.  The ids *)
(* a client can name are those of the rows and one past them; every        *)
(* handler answers 404 for a missing row before it writes, and the id past *)
(* the rows is sent to GET and DELETE /tasks/{id} and DELETE /events/{id}. *)
(* A token that does not verify is answered 401 by the dependency every    *)
(* handler shares, before the handler runs: it is sent to GET /tasks/{id}. *)

Callers == access_tokens \cup ForgedTokens

RowIds(rows) == DOMAIN rows \cup {next_id(rows)}

get_task(token, task_id) ==
    get_task_status(token, task_id) \in {200, 401, 403, 404} /\ UNCHANGED vars

OrgNext ==
    \/ \E t \in access_tokens, b \in TaskCreates : create_task(t, b)
    \/ \E t \in Callers, i \in RowIds(tasks) : get_task(t, i)
    \/ \E t \in access_tokens, i \in DOMAIN tasks, b \in TaskUpdates : update_task(t, i, b)
    \/ \E t \in access_tokens, i \in RowIds(tasks) : delete_task(t, i)
    \/ \E t \in access_tokens, i \in DOMAIN tasks : send_task_to_admin(t, i)
    \/ \E t \in access_tokens, i \in DOMAIN tasks, f \in Files : upload_resource(t, i, f)
    \/ \E t \in access_tokens, b \in EventCreates : create_event(t, b)
    \/ \E t \in access_tokens, i \in DOMAIN events, b \in EventUpdates : update_event(t, i, b)
    \/ \E t \in access_tokens, i \in RowIds(events) : delete_event(t, i)
    \/ \E t \in access_tokens, b \in EventCreates : schedule_meeting(t, b)
    \/ \E t \in access_tokens, b \in RequestCreates : create_request(t, b)
    \/ \E t \in access_tokens, i \in DOMAIN request_tickets, b \in RequestUpdates :
          update_request(t, i, b)
    \/ \E t \in access_tokens, i \in DOMAIN request_tickets, b \in RequestResponses :
          respond_request(t, i, b)
    \/ \E t \in access_tokens, b \in GrantCreates : create_access_grant(t, b)

OrgSpec == OrgInit /\ [][OrgNext]_vars


----------------------------------------------------------------------------
(* The user handlers over the organisation once it is set up: any account  *)
(* may send the request, on itself or on another account.                  *)

StaffCreates ==
    {[email |-> "new@example.com", password |-> "Welcome123!", role |-> r,
      department_id |-> d, active |-> TRUE] :
        r \in {"admin", "staff"}, d \in departments \cup {NoDept}}

StaffUpdates ==
    {[role |-> "admin"]} \cup {[department_id |-> d] : d \in departments}

StaffingNext ==
    \/ \E t \in Callers, b \in StaffCreates : create_user(t, b)
    \/ \E t \in Callers, u \in UserIds, b \in StaffUpdates : update_user(t, u, b)
    \/ \E t \in Callers, u \in UserIds : delete_user(t, u)

StaffingSpec == OrgInit /\ [][StaffingNext]_vars

----------------------------------------------------------------------------
(* Claims on the authorization checks *)

Admins == {i \in DOMAIN users : users[i].role = "admin"}

(* the callers the dependency resolves to an account of the given role *)
CallersOf(role) ==
    {t \in access_tokens :
        get_current_user(t, now, users) = 200 /\ users[t.sub].role = role}

(* C13: for a manager, every request that changes a task, an event, a user *)
(* or a request ticket is allowed when the row is of the manager's         *)
(* department and answered 403 when the row is of another department or    *)
(* of none.                                                                *)
C13_ManagerDepartmentScope ==
    \A t \in CallersOf("manager") :
        LET own == users[t.sub].department_id IN
        /\ \A i \in DOMAIN tasks :
              IF tasks[i].department_id = own
              THEN /\ update_task_status(t, i, [status |-> "done"]) = 200
                   /\ delete_task_status(t, i) = 204
                   /\ send_task_to_admin_status(t, i) = 200
              ELSE /\ \A b \in TaskUpdates : update_task_status(t, i, b) = 403
                   /\ delete_task_status(t, i) = 403
                   /\ send_task_to_admin_status(t, i) = 403
                   /\ \A f \in Files : upload_resource_status(t, i, f) = 403
        /\ \A i \in DOMAIN events :
              IF events[i].department_id = own
              THEN /\ update_event_status(t, i, [scheduled_at |-> 1]) = 200
                   /\ delete_event_status(t, i) = 204
              ELSE /\ \A b \in EventUpdates : update_event_status(t, i, b) = 403
                   /\ delete_event_status(t, i) = 403
        /\ \A u \in DOMAIN users :
              IF users[u].department_id = own
              THEN update_user_status(t, u, [department_id |-> own], now, users) = 200
              ELSE /\ \A b \in StaffUpdates :
                         update_user_status(t, u, b, now, users) = 403
                   /\ delete_user_status(t, u, now, users, tasks) = 403
        /\ \A i \in DOMAIN request_tickets :
              IF request_tickets[i].department_id = own
              THEN /\ update_request_status(t, i, [status |-> "approved"]) = 200
                   /\ respond_request_status(t, i, [subject |-> "re"]) = 202
              ELSE /\ \A b \in RequestUpdates : update_request_status(t, i, b) = 403
                   /\ \A b \in RequestResponses : respond_request_status(t, i, b) = 403

(* C14: no request of a manager to create or to update a user, on itself   *)
(* or on another account, adds an administrator; a request of a manager    *)
(* that names the admin role is answered 403 and leaves the users table as *)
(* it was.                                                                 *)
C14_ManagersMakeNoAdmin ==
    [][\A t \in CallersOf("manager") :
          /\ \A b \in StaffCreates : create_user(t, b) =>
                /\ Admins' \subseteq Admins
                /\ b.role = "admin" =>
                      /\ create_user_status(t, b, now, users) = 403
                      /\ users' = users
          /\ \A u \in DOMAIN users, b \in StaffUpdates : update_user(t, u, b) =>
                /\ Admins' \subseteq Admins
                /\ Field(b, "role", "none") = "admin" =>
                      /\ update_user_status(t, u, b, now, users) = 403
                      /\ users' = users]_vars

(* a manager has an account of its department beside it that is not an     *)
(* administrator, a fifth account has been created, and the manager's      *)
(* requests to make an administrator of itself, of the other account and   *)
(* of a new account are all refused                                        *)
C14_Witness ==
    \E t \in CallersOf("manager") :
        /\ 5 \in DOMAIN users
        /\ users[5].role = "staff"
        /\ users[5].department_id = users[t.sub].department_id
        /\ \A u \in {t.sub, 5} :
              update_user_status(t, u, [role |-> "admin"], now, users) = 403
        /\ \A b \in StaffCreates :
              b.role = "admin" => create_user_status(t, b, now, users) = 403
        /\ Admins = {1}


(* C15: a manager's update that names for a task, an event or a user a     *)
(* department other than the one the row has (into the manager's own       *)
(* department or out of it) is answered 403.                               *)
C15_RelocationForbidden ==
    \A t \in CallersOf("manager"), d \in departments :
        /\ \A i \in DOMAIN tasks :
              tasks[i].department_id # d =>
                  update_task_status(t, i, [department_id |-> d]) = 403
        /\ \A i \in DOMAIN events :
              events[i].department_id # d =>
                  update_event_status(t, i, [department_id |-> d]) = 403
        /\ \A u \in DOMAIN users :
              users[u].department_id # d =>
                  update_user_status(t, u, [department_id |-> d], now, users) = 403


(* C16: a staff user reads and changes a task, its comments and its        *)
(* resources only as the task's assignee: for a task assigned to another   *)
(* account every task endpoint answers 403 and every list leaves the task  *)
(* and its resources out.                                                  *)
C16_StaffAssigneeOnly ==
    \A t \in CallersOf("staff"), i \in DOMAIN tasks :
        IF tasks[i].assigned_to_id = t.sub
        THEN /\ get_task_status(t, i) = 200
             /\ update_task_status(t, i, [status |-> "done"]) = 200
        ELSE /\ get_task_status(t, i) = 403
             /\ \A b \in TaskUpdates : update_task_status(t, i, b) = 403
             /\ delete_task_status(t, i) = 403
             /\ send_task_to_admin_status(t, i) = 403
             /\ add_comment_status(t, i) = 403
             /\ list_comments_status(t, i) = 403
             /\ \A f \in Files : upload_resource_status(t, i, f) = 403
             /\ list_task_resources_status(t, i) = 403
             /\ i \notin list_my_tasks(t)
             /\ i \notin list_all_tasks(t)
             /\ i \notin list_department_tasks(t)
             /\ \A d \in departments :
                   list_department_resources_status(t, d) = 200 =>
                       \A r \in list_department_resources(t, d) :
                           resources[r].task_id # i


(* C17: a collaborator is scoped as staff is: a request on a task (get,    *)
(* update, comment, upload, send to admin) is allowed when the caller is   *)
(* the task's assignee and answered 403 otherwise, and a request on a      *)
(* ticket is allowed when the caller is its requester and answered 403     *)
(* otherwise.                                                              *)
C17_CollaboratorAsStaff ==
    \A t \in CallersOf("collaborator") :
        /\ \A i \in DOMAIN tasks :
              IF tasks[i].assigned_to_id = t.sub
              THEN /\ get_task_status(t, i) = 200
                   /\ update_task_status(t, i, [status |-> "done"]) = 200
                   /\ add_comment_status(t, i) = 201
                   /\ send_task_to_admin_status(t, i) = 200
              ELSE /\ get_task_status(t, i) = 403
                   /\ \A b \in TaskUpdates : update_task_status(t, i, b) = 403
                   /\ add_comment_status(t, i) = 403
                   /\ \A f \in Files : upload_resource_status(t, i, f) = 403
                   /\ send_task_to_admin_status(t, i) = 403
        /\ \A i \in DOMAIN request_tickets :
              IF request_tickets[i].requester_id = t.sub
              THEN list_request_audits_status(t, i) = 200
              ELSE list_request_audits_status(t, i) = 403


(* C18: a staff user or a collaborator creates a task, a request ticket or *)
(* a meeting only in its own department: a creation request that names     *)
(* another department is answered 403.                                     *)
C18_CreateInOwnDepartment ==
    \A t \in CallersOf("staff") \cup CallersOf("collaborator"), d \in departments :
        d # users[t.sub].department_id =>
            /\ \A b \in TaskCreates :
                  (b.department_id = d /\ b.assigned_to_id \in DOMAIN users) =>
                      create_task_status(t, b) = 403
            /\ create_request_status(t, [department_id |-> d]) = 403
            /\ schedule_meeting_status(t, [department_id |-> d]) = 403


(* a grant of the user for tasks (or every resource type), for this task   *)
(* or for all of them, with the permission asked for                       *)
MatchingGrant(user_id, task_id, permission) ==
    \E g \in DOMAIN access_grants :
        /\ access_grants[g].user_id = user_id
        /\ access_grants[g].resource_type \in {"tasks", "*"}
        /\ access_grants[g].resource_id \in {"all", ToString(task_id)}
        /\ access_grants[g].permission = permission

(* C19: where the role, department and assignee check denies a request on  *)
(* a task, the request is allowed when the caller holds a matching grant   *)
(* and answered 403 when it holds none.                                    *)
C19_GrantConvertsDenial ==
    \A t \in access_tokens, i \in DOMAIN tasks :
        (/\ get_current_user(t, now, users) = 200
         /\ _task_guard(tasks[i], current_user_of(t)) = 403) =>
            IF MatchingGrant(t.sub, i, "edit")
            THEN update_task_status(t, i, [status |-> "done"]) = 200
            ELSE update_task_status(t, i, [status |-> "done"]) = 403

Allowed(status) == status \in {200, 201, 202, 204}

(* C20: a step that adds rows to access_grants and changes nothing else    *)
(* turns no allowed request into a refused one and takes no row out of a   *)
(* list, for every caller, row and body.                                   *)
C20_GrantsOnlyAdd ==
    [][(/\ DOMAIN access_grants \subseteq DOMAIN access_grants'
        /\ DOMAIN access_grants # DOMAIN access_grants'
        /\ \A g \in DOMAIN access_grants : access_grants'[g] = access_grants[g]
        /\ UNCHANGED <<users, departments, tasks, events, request_tickets, resources>>) =>
          \A t \in access_tokens :
             /\ \A i \in DOMAIN tasks :
                   /\ Allowed(get_task_status(t, i)) => Allowed(get_task_status(t, i)')
                   /\ Allowed(delete_task_status(t, i)) => Allowed(delete_task_status(t, i)')
                   /\ Allowed(send_task_to_admin_status(t, i)) =>
                          Allowed(send_task_to_admin_status(t, i)')
                   /\ Allowed(add_comment_status(t, i)) => Allowed(add_comment_status(t, i)')
                   /\ \A b \in TaskUpdates :
                          Allowed(update_task_status(t, i, b)) =>
                              Allowed(update_task_status(t, i, b)')
                   /\ \A f \in Files :
                          Allowed(upload_resource_status(t, i, f)) =>
                              Allowed(upload_resource_status(t, i, f)')
             /\ \A i \in DOMAIN events :
                   /\ Allowed(delete_event_status(t, i)) => Allowed(delete_event_status(t, i)')
                   /\ \A b \in EventUpdates :
                          Allowed(update_event_status(t, i, b)) =>
                              Allowed(update_event_status(t, i, b)')
             /\ \A i \in DOMAIN request_tickets :
                   /\ Allowed(list_request_audits_status(t, i)) =>
                          Allowed(list_request_audits_status(t, i)')
                   /\ \A b \in RequestUpdates :
                          Allowed(update_request_status(t, i, b)) =>
                              Allowed(update_request_status(t, i, b)')
                   /\ \A b \in RequestResponses :
                          Allowed(respond_request_status(t, i, b)) =>
                              Allowed(respond_request_status(t, i, b)')
             /\ \A b \in TaskCreates :
                   Allowed(create_task_status(t, b)) => Allowed(create_task_status(t, b)')
             /\ \A b \in EventCreates :
                   /\ Allowed(create_event_status(t, b)) => Allowed(create_event_status(t, b)')
                   /\ Allowed(schedule_meeting_status(t, b)) =>
                          Allowed(schedule_meeting_status(t, b)')
             /\ \A b \in RequestCreates :
                   Allowed(create_request_status(t, b)) => Allowed(create_request_status(t, b)')
             /\ \A b \in GrantCreates :
                   Allowed(create_access_grant_status(t, b)) =>
                       Allowed(create_access_grant_status(t, b)')
             /\ list_my_tasks(t) \subseteq list_my_tasks(t)'
             /\ list_department_tasks(t) \subseteq list_department_tasks(t)'
             /\ list_all_tasks(t) \subseteq list_all_tasks(t)'
             /\ list_requests(t) \subseteq list_requests(t)'
             /\ \A d \in departments :
                   Allowed(list_department_resources_status(t, d)) =>
                       Allowed(list_department_resources_status(t, d)')]_vars

(* a staff user holds a grant that names the other department, and the     *)
(* requests on a task of its own department assigned to it are allowed     *)
C20_Witness ==
    \E g \in DOMAIN access_grants, t \in CallersOf("staff"), i \in DOMAIN tasks :
        /\ access_grants[g].user_id = t.sub
        /\ access_grants[g].department_id \notin {NoDept, tasks[i].department_id}
        /\ tasks[i].assigned_to_id = t.sub
        /\ get_task_status(t, i) = 200
        /\ update_task_status(t, i, [status |-> "done"]) = 200
        /\ delete_task_status(t, i) = 204


----------------------------------------------------------------------------
(* Start of the process: startup_event() over a new database.  The tables  *)
(* are created and the upload directories made before the check of the     *)
(* signing secret; a RuntimeError raised by the startup handler ends the   *)
(* process, so no request is served.  seed_ngo_data() is off by default.   *)

(* Variant of lower with a plausible slip: the value is compared as typed *)
lower_as_typed(s) == s

(* str.lower() on the values of ENVIRONMENT the model draws from *)
lower(s) ==
    CASE s = "Prod" -> "prod"
      [] s = "PROD" -> "prod"
      [] s = "Production" -> "production"
      [] OTHER -> s

Configs ==
    {[secret_key |-> k, environment |-> e, smtp_host |-> h, smtp_from |-> ""] :
        k \in {"change-me", "s3cret"},
        e \in {"dev", "prod", "Prod", "PROD", "staging", "Production"},
        h \in {"", "smtp.example.com"}}

BootInit ==
    /\ config \in Configs
    /\ phase = "boot"
    /\ now = 0
    /\ users = <<>>
    /\ refresh_tokens = <<>>
    /\ access_tokens = {}
    /\ pc = [w \in Workers |-> "idle"]
    /\ tok = [w \in Workers |-> UnknownSecret]
    /\ rec = [w \in Workers |-> 0]
    /\ rotated = {}
    /\ logged_out = {}
    /\ departments = {}
    /\ tasks = <<>>
    /\ events = <<>>
    /\ request_tickets = <<>>
    /\ resources = <<>>
    /\ access_grants = <<>>
    /\ email_queue = <<>>
    /\ mailer = [pc |-> "off", batch |-> <<>>]

startup_event ==
    /\ phase = "boot"
    /\ IF config.secret_key = "change-me" /\ lower(config.environment) = "prod"
       THEN /\ phase' = "aborted"
            /\ UNCHANGED <<users, departments, mailer>>
       ELSE /\ phase' = "serving"
            /\ mailer' = IF config.smtp_host # ""
                         THEN [pc |-> "poll", batch |-> <<>>]
                         ELSE mailer
            /\ IF get_user(users, admin_email) = {}
               THEN /\ departments' = departments \cup {AdminDept}
                    /\ users' = [i \in DOMAIN users \cup {next_user_id(users)} |->
                                    IF i = next_user_id(users) THEN seed_admin[1]
                                    ELSE users[i]]
               ELSE UNCHANGED <<users, departments>>
    /\ UNCHANGED <<now, refresh_tokens, access_tokens, pc, tok, rec, rotated,
                   logged_out, tasks, events, request_tickets, resources,
                   access_grants, config, email_queue>>

(* requests reach the handlers once the startup handler has returned *)
BootNext ==
    \/ startup_event
    \/ phase = "serving" /\ \E e \in Emails, p \in Passwords : login_for_access_token(e, p)
    \/ phase = "serving" /\ \E s \in RawSecrets :
          s \in IssuedSecrets \cup {UnknownSecret} /\ logout(s)
    \/ phase = "serving" /\ \E t \in access_tokens \cup ForgedTokens : read_users_me(t)

BootSpec == BootInit /\ [][BootNext]_vars

(* the spellings of ENVIRONMENT that str.lower() takes to "prod" *)
ProdNames == {"prod", "Prod", "PROD"}

----------------------------------------------------------------------------
(* Tasks and the accounts they are assigned to, over the organisation once *)
(* it is set up, with the clock: POST /tasks, PATCH and DELETE /tasks/{id}, *)
(* send-to-admin and DELETE /users/{id}.                                   *)

WorkCreates ==
    {[department_id |-> AdminDept, assigned_to_id |-> a, start_date |-> 0,
      end_date |-> 1, status |-> st] :
        a \in {StaffId, CollaboratorId}, st \in {"pending", "done"}}

WorkUpdates ==
    {[status |-> "done"], [status |-> "pending"],
     [assigned_to_id |-> CollaboratorId], [assigned_to_id |-> next_user_id(users)]}

WorkNext ==
    \/ Tick
    \/ \E t \in access_tokens, b \in WorkCreates : create_task(t, b)
    \/ \E t \in access_tokens, i \in RowIds(tasks), b \in WorkUpdates :
          update_task(t, i, b)
    \/ \E t \in access_tokens, i \in RowIds(tasks) : delete_task(t, i)
    \/ \E t \in access_tokens, i \in RowIds(tasks) : send_task_to_admin(t, i)
    \/ \E t \in access_tokens, u \in UserIds : delete_user(t, u)

WorkSpec == OrgInit /\ [][WorkNext]_vars

(* C22: DELETE /users/{id} is refused while a task that is not done is     *)
(* assigned to the user, and every task that is not done is assigned to a  *)
(* user that exists.                                                       *)
C22_UnfinishedWorkHasAssignee ==
    /\ \A t \in access_tokens, u \in DOMAIN users :
          active_tasks(tasks, u) # {} =>
              delete_user_status(t, u, now, users, tasks) \in {400, 401, 403}
    /\ \A i \in DOMAIN tasks :
          tasks[i].status # "done" => tasks[i].assigned_to_id \in DOMAIN users


(* C23: a task update sent by a manager or a staff user that carries a     *)
(* field the role may not change (assigned_to_id, department_id) is        *)
(* answered 403, never 200 with the field left out.                        *)
C23_ForbiddenFieldIsRefused ==
    \A t \in CallersOf("manager") \cup CallersOf("staff"), i \in DOMAIN tasks :
        \A body \in {[assigned_to_id |-> CollaboratorId],
                     [department_id |-> OtherDept],
                     [status |-> "done", assigned_to_id |-> CollaboratorId]} :
            (DOMAIN body \ allowed_fields(current_user_of(t))) # {} =>
                update_task_status(t, i, body) = 403


----------------------------------------------------------------------------
(* Failed refreshes and the independence of credentials *)

(* the row of s is in force and its owner may use it *)
Acceptable(s) ==
    \E i \in RowOf(s) :
        /\ ~refresh_tokens[i].revoked
        /\ refresh_tokens[i].expires_at > now
        /\ OwnerActive(i)

SameBut(i) ==
    refresh_tokens'[i] = [refresh_tokens[i] EXCEPT !.revoked = TRUE]

C25_CredentialsIndependent ==
    [][refresh_tokens' # refresh_tokens =>
       /\ \A e \in Emails, p \in Passwords :
             login_for_access_token(e, p) =>
                 \A i \in DOMAIN refresh_tokens : refresh_tokens'[i] = refresh_tokens[i]
       /\ \A s \in RawSecrets :
             logout(s) =>
                 /\ DOMAIN refresh_tokens' = DOMAIN refresh_tokens
                 /\ \A i \in DOMAIN refresh_tokens \ RowOf(s) :
                       refresh_tokens'[i] = refresh_tokens[i]
                 /\ \A i \in RowOf(s) : SameBut(i)
       /\ \A w \in Workers :
             RefreshRevoke(w) =>
                 /\ DOMAIN refresh_tokens' = DOMAIN refresh_tokens
                 /\ \A i \in DOMAIN refresh_tokens \ RowOf(tok[w]) :
                       refresh_tokens'[i] = refresh_tokens[i]
                 /\ \A i \in RowOf(tok[w]) : SameBut(i)
       /\ \A w \in Workers :
             RefreshIssue(w) =>
                 \A i \in DOMAIN refresh_tokens : refresh_tokens'[i] = refresh_tokens[i]
      ]_vars

C25_Witness ==
    \E i, j, k \in DOMAIN refresh_tokens :
        /\ i # j
        /\ refresh_tokens[i].user_id = refresh_tokens[j].user_id
        /\ refresh_tokens[k].user_id = refresh_tokens[i].user_id
        /\ k \in logged_out
        /\ refresh_tokens[k].revoked
        /\ RefreshNow(i) = 200
        /\ RefreshNow(j) = 200


(* C26: no DELETE /users/{id} and no PATCH /users/{id} sent by a manager   *)
(* that deactivates, demotes or changes the password of an account whose   *)
(* role is admin is carried out.                                           *)
C26_ManagerCannotDisableAdmin ==
    \A t \in CallersOf("manager"), u \in Admins :
        /\ delete_user_status(t, u, now, users, tasks) # 204
        /\ \A body \in {[active |-> FALSE], [role |-> "staff"],
                        [password |-> "Welcome123!"]} :
              update_user_status(t, u, body, now, users) # 200


----------------------------------------------------------------------------
(* Request tickets over time: POST /requests, PATCH /requests/{id} and     *)
(* POST /requests/{id}/respond with the clock.                             *)

TicketCreates == {[department_id |-> NoDept]}

TicketUpdates ==
    {[status |-> st] : st \in {"pending", "approved", "rejected", "archived"}}

TicketResponses ==
    {[subject |-> "re"], [subject |-> "re", status |-> "pending"],
     [subject |-> "re", status |-> "approved"]}

TicketNext ==
    \/ Tick
    \/ \E t \in access_tokens, b \in TicketCreates : create_request(t, b)
    \/ \E t \in access_tokens, i \in RowIds(request_tickets), b \in TicketUpdates :
          update_request(t, i, b)
    \/ \E t \in access_tokens, i \in RowIds(request_tickets), b \in TicketResponses :
          respond_request(t, i, b)

TicketSpec == OrgInit /\ [][TicketNext]_vars

(* C27: the status of a ticket is pending, approved or rejected; a ticket  *)
(* that is approved or rejected has resolved_at set; and resolved_at, once *)
(* set, keeps its value in every later step, also when the ticket goes     *)
(* back to pending or is resolved again, and is only ever set by a step    *)
(* that leaves the ticket approved or rejected.                            *)
C27_ResolvedAtWrittenOnce ==
    /\ [](\A i \in DOMAIN request_tickets :
             /\ request_tickets[i].status \in {"pending", "approved", "rejected"}
             /\ request_tickets[i].status \in {"approved", "rejected"} =>
                    request_tickets[i].resolved_at # NoStamp)
    /\ [][\A i \in DOMAIN request_tickets :
             /\ i \in DOMAIN request_tickets'
             /\ request_tickets[i].resolved_at # NoStamp =>
                    request_tickets'[i].resolved_at = request_tickets[i].resolved_at
             /\ (/\ request_tickets[i].resolved_at = NoStamp
                 /\ request_tickets'[i].resolved_at # NoStamp) =>
                    /\ request_tickets'[i].status \in {"approved", "rejected"}
                    /\ request_tickets'[i].resolved_at = now]_vars

C27_Witness ==
    \E i, j \in DOMAIN request_tickets :
        /\ request_tickets[i].status = "pending"
        /\ request_tickets[i].resolved_at # NoStamp
        /\ request_tickets[j].status = "approved"
        /\ request_tickets[j].resolved_at # NoStamp
        /\ request_tickets[j].resolved_at < now


(* C28: PATCH /users/{id} with a password shorter than the minimum is      *)
(* answered 400 when the caller may update the account, and no step that  *)
(* changes the users table is such a request: none of the other fields of  *)
(* the body is stored.                                                     *)
ShortPasswordUpdates ==
    {b \in UserUpdates :
        "password" \in DOMAIN b /\ Len(b.password) < password_min_length}

C28_RefusedUpdateWritesNothing ==
    /\ [](\A t \in CallersOf("admin"), u \in DOMAIN users, b \in ShortPasswordUpdates :
             update_user_status(t, u, b, now, users) = 400)
    /\ [][users' # users =>
             \A t \in access_tokens, u \in UserIds, b \in ShortPasswordUpdates :
                 ~update_user(t, u, b)]_vars

C28_Witness ==
    \E t \in CallersOf("admin"), u \in DOMAIN users, b \in ShortPasswordUpdates :
        /\ u # t.sub
        /\ users[u].active
        /\ DOMAIN b # {"password"}
        /\ apply_user_update(users[u], fields_before_password(b)) # users[u]
        /\ update_user_status(t, u, b, now, users) = 400


(* C29: for every task, completed_at is set exactly when the status is     *)
(* done, whether the task was created with that status or updated to it.   *)
C29_StampIffDone ==
    \A i \in DOMAIN tasks :
        (tasks[i].completed_at # NoStamp) <=> (tasks[i].status = "done")


----------------------------------------------------------------------------
(* The email queue: POST /messages/email and the thread _email_worker that *)
(* startup_event starts when an SMTP host is configured.                   *)

MaxMail == 3

(* .limit(10) of the worker's query *)
batch_limit == 10

MailConfigs ==
    {[secret_key |-> "s3cret", environment |-> "dev", smtp_host |-> h, smtp_from |-> f] :
        h \in {"", "smtp.example.com"}, f \in {"", "erp@example.com"}}

(* subjects a client can send, as the lines str.splitlines() gives *)
Subjects == {<<"Hello">>, <<"Hello", "Bcc: all@example.com">>}

(* the process has started with one of the configurations and the          *)
(* administrator has signed in                                             *)
MailInit ==
    /\ config \in MailConfigs
    /\ now = 0
    /\ users = seed_admin
    /\ refresh_tokens = _issue_refresh_token(<<>>, 1, 1, 0)
    /\ access_tokens = {create_access_token(1, 0, 1)}
    /\ pc = [w \in Workers |-> "idle"]
    /\ tok = [w \in Workers |-> UnknownSecret]
    /\ rec = [w \in Workers |-> 0]
    /\ rotated = {}
    /\ logged_out = {}
    /\ departments = {AdminDept}
    /\ tasks = <<>>
    /\ events = <<>>
    /\ request_tickets = <<>>
    /\ resources = <<>>
    /\ access_grants = <<>>
    /\ phase = "serving"
    /\ email_queue = <<>>
    /\ mailer = IF config.smtp_host # ""
                THEN [pc |-> "poll", batch |-> <<>>]
                ELSE [pc |-> "off", batch |-> <<>>]

queue_external_email_status(token) ==
    IF get_current_user(token, now, users) # 200 THEN 401 ELSE 202

queue_external_email(token, subject) ==
    IF queue_external_email_status(token) # 202
    THEN UNCHANGED vars
    ELSE /\ Len(email_queue) < MaxMail
         /\ email_queue' = Append(email_queue, [status |-> "queued", subject |-> subject])
         /\ UNCHANGED <<now, users, refresh_tokens, access_tokens, pc, tok, rec,
                        rotated, logged_out, org_vars, config, phase, mailer>>

(* the rows of the worker's query: status queued, oldest first, ten at most *)
RECURSIVE oldest_queued(_, _, _)
oldest_queued(queue, from, limit) ==
    IF from > Len(queue) \/ limit = 0 THEN <<>>
    ELSE IF queue[from].status = "queued"
    THEN <<from>> \o oldest_queued(queue, from + 1, limit - 1)
    ELSE oldest_queued(queue, from + 1, limit)

(* What _send_email does with an item: "not configured" without a sender   *)
(* address; ValueError from the assignment of a Subject header that holds  *)
(* a line break, which stands before the try; otherwise the outcome of     *)
(* the SMTP conversation.                                                  *)
_send_email(item) ==
    IF config.smtp_host = "" \/ config.smtp_from = "" THEN {"error"}
    ELSE IF Len(item.subject) > 1 THEN {"raise"}
    ELSE {"sent", "error"}

(* the query at the top of the loop; with no row the thread sleeps and     *)
(* comes back to the query                                                 *)
email_worker_poll ==
    /\ mailer.pc = "poll"
    /\ LET queued == oldest_queued(email_queue, 1, batch_limit) IN
       mailer' = IF queued = <<>> THEN mailer
                 ELSE [pc |-> "send", batch |-> queued]
    /\ UNCHANGED <<now, users, refresh_tokens, access_tokens, pc, tok, rec,
                   rotated, logged_out, org_vars, config, phase, email_queue>>

(* one turn of `for item in queued`: the status is set and committed; an   *)
(* exception leaves the loop and ends the thread                           *)
email_worker_send ==
    /\ mailer.pc = "send"
    /\ LET item == Head(mailer.batch) IN
       \E outcome \in _send_email(email_queue[item]) :
          IF outcome = "raise"
          THEN /\ mailer' = [pc |-> "dead", batch |-> <<>>]
               /\ UNCHANGED email_queue
          ELSE /\ email_queue' = [email_queue EXCEPT ![item].status = outcome]
               /\ mailer' = IF Tail(mailer.batch) = <<>>
                            THEN [pc |-> "poll", batch |-> <<>>]
                            ELSE [mailer EXCEPT !.batch = Tail(mailer.batch)]
    /\ UNCHANGED <<now, users, refresh_tokens, access_tokens, pc, tok, rec,
                   rotated, logged_out, org_vars, config, phase>>

MailNext ==
    \/ \E t \in access_tokens \cup ForgedTokens, subject \in Subjects :
          queue_external_email(t, subject)
    \/ email_worker_poll
    \/ email_worker_send

MailSpec == MailInit /\ [][MailNext]_vars

(* the thread is scheduled again and again while the process runs *)
MailFairSpec ==
    MailSpec /\ WF_vars(email_worker_poll) /\ WF_vars(email_worker_send)


(* C30: an entry changes status only from queued to sent or to error;      *)
(* while the thread runs, an entry that is queued is eventually sent or    *)
(* marked error, the oldest queued entry first; and with no SMTP host      *)
(* every entry stays queued.                                               *)
StatusOf(i) == IF i \in DOMAIN email_queue THEN email_queue[i].status ELSE "none"

C30_QueueDrains ==
    /\ [][\A i \in DOMAIN email_queue :
             email_queue'[i].status # email_queue[i].status =>
                 /\ email_queue[i].status = "queued"
                 /\ email_queue'[i].status \in {"sent", "error"}
                 /\ \A j \in 1..(i - 1) : email_queue[j].status # "queued"]_vars
    /\ [](config.smtp_host = "" =>
             \A i \in DOMAIN email_queue : email_queue[i].status = "queued")
    /\ \A i \in 1..MaxMail :
          (StatusOf(i) = "queued" /\ mailer.pc \in {"poll", "send"})
              ~> (StatusOf(i) \in {"sent", "error"})

====
